---- MODULE Spec2Model ----
(***************************************************************************)
(* Image_to_GPS: EXIF GPS extraction from an uploaded zip archive.         *)
(*                                                                         *)
(* The module models the two front ends of the repository, which share the *)
(* class ImageGpsExtractor with small differences:                         *)
(*   "gradio"    src/image_to_gps_gradio.py  (process_zip)                 *)
(*   "streamlit" src/streamlit_app.py        (the script's run block)      *)
(* A file name is a sequence of one-character strings, so that lower(),    *)
(* endswith() and splitext() are computed and not assumed.  A float is an  *)
(* exact rational <<num, den>> in lowest terms; rounding is not modelled.  *)
(***************************************************************************)
EXTENDS Integers, Sequences, FiniteSets

VARIABLES
  variant,       \* which front end runs: "gradio" or "streamlit"
  pc,            \* position of the run: "idle", "called", "staged", "scanned", "exported"
  zip_file,      \* the upload handed to the run (argument of process_zip)
  user_id,       \* streamlit: text of the identifier field
  unzip_exists,  \* <output_folder>/unzip exists
  unzip,         \* files in <output_folder>/unzip
  jpg_exists,    \* <output_folder>/jpg exists
  jpg,           \* file names in <output_folder>/jpg
  csv,           \* <output_folder>/gps_data.csv: [exists, rows]
  todo,          \* files os.walk has not yet yielded in the running scan
  data,          \* the list `data` of extract_gps_from_images
  ret,           \* locals of the scan loop: file and what get_gps_info returned
  outcome        \* how the last run that ended did end

vars == <<variant, pc, zip_file, user_id, unzip_exists, unzip, jpg_exists, jpg,
          csv, todo, data, ret, outcome>>

-----------------------------------------------------------------------------
(* Bounds of the model.                                                    *)

\* largest number of files in an uploaded archive (and in the unpack directory)
MaxFiles == 2
\* largest numerator of a DMS rational drawn for the converter
MaxNum == 2
\* largest denominator of a DMS rational drawn for the converter
MaxDen == 2

-----------------------------------------------------------------------------
(* Strings.                                                                *)

UpperCase == <<"A","B","C","D","E","F","G","H","I","J","K","L","M",
               "N","O","P","Q","R","S","T","U","V","W","X","Y","Z">>
LowerCase == <<"a","b","c","d","e","f","g","h","i","j","k","l","m",
               "n","o","p","q","r","s","t","u","v","w","x","y","z">>

LowerChar(c) ==
  IF \E i \in 1..26 : UpperCase[i] = c
  THEN LowerCase[CHOOSE i \in 1..26 : UpperCase[i] = c]
  ELSE c

\* str.lower()
Lower(s) == [i \in 1..Len(s) |-> LowerChar(s[i])]

\* str.endswith(suffix)
EndsWith(s, suf) ==
  /\ Len(s) >= Len(suf)
  /\ SubSeq(s, Len(s) - Len(suf) + 1, Len(s)) = suf

\* str.strip() leaves a non-empty string
StripNonEmpty(s) == \E i \in 1..Len(s) : s[i] # " "

DotZip  == <<".","z","i","p">>
DotJpg  == <<".","j","p","g">>
DotJpeg == <<".","j","p","e","g">>
DotPng  == <<".","p","n","g">>
DotHeic == <<".","h","e","i","c">>

\* file.lower().endswith((".jpg", ".jpeg", ".png", ".heic"))
SupportedExt(name) ==
  \E suf \in {DotJpg, DotJpeg, DotPng, DotHeic} : EndsWith(Lower(name), suf)

\* file_path.lower().endswith(".heic")
IsHeic(name) == EndsWith(Lower(name), DotHeic)

\* os.path.splitext(os.path.basename(file_path))[0]: the name up to its last dot
\* (a name whose only dot is its first character has no extension)
Stem(name) ==
  LET dots == {i \in 2..Len(name) : name[i] = "."}
  IN  IF dots = {} THEN name
      ELSE SubSeq(name, 1, (CHOOSE i \in dots : \A j \in dots : j <= i) - 1)

\* temp_path: f"{jpg_path}/{stem}.jpg"
TempName(name) == Stem(name) \o DotJpg

-----------------------------------------------------------------------------
(* Rationals, standing for Python floats.                                  *)

Abs(x) == IF x < 0 THEN -x ELSE x

RECURSIVE Gcd(_, _)
Gcd(a, b) == IF b = 0 THEN a ELSE Gcd(b, a % b)

\* the rational n/d (d # 0) in lowest terms with a positive denominator
Rat(n, d) ==
  LET g == Gcd(Abs(n), Abs(d))
      s == IF d < 0 THEN -1 ELSE 1
  IN  <<(s * n) \div g, (s * d) \div g>>

RatAdd(a, b) == Rat(a[1] * b[2] + b[1] * a[2], a[2] * b[2])
RatDivInt(a, k) == Rat(a[1], a[2] * k)
RatNeg(a) == <<-a[1], a[2]>>

\* None, for a float-valued result
NoCoord == <<>>
\* None, for a string-valued result
NoString == <<"None">>

\* Python truthiness of a float-or-None: None and 0.0 (and -0.0) are falsy
Truthy(x) == x # NoCoord /\ x[1] # 0

-----------------------------------------------------------------------------
(* Timestamps: pd.to_datetime(..., format="%Y:%m:%d %H:%M:%S",             *)
(* errors="coerce") on the zero-padded 19-character form EXIF writes.      *)

Digits == <<"0","1","2","3","4","5","6","7","8","9">>
IsDigit(c) == \E i \in 1..10 : Digits[i] = c
DigitVal(c) == (CHOOSE i \in 1..10 : Digits[i] = c) - 1

RECURSIVE NumVal(_, _, _)
\* the number written by the digits s[i..j]
NumVal(s, i, j) ==
  IF j < i THEN 0 ELSE NumVal(s, i, j - 1) * 10 + DigitVal(s[j])

IsLeap(y) == (y % 4 = 0 /\ y % 100 # 0) \/ y % 400 = 0
DaysIn(y, m) ==
  IF m = 2 THEN (IF IsLeap(y) THEN 29 ELSE 28)
  ELSE IF m \in {4, 6, 9, 11} THEN 30 ELSE 31

\* NaT, the null timestamp
NaT == <<>>

\* the parsed timestamp <<Y, m, d, H, M, S>>, or NaT when the text does not
\* match the format or names no real date (errors="coerce"); None gives NaT
ToDatetime(s) ==
  IF s = NoString \/ Len(s) # 19 THEN NaT
  ELSE IF \/ s[5] # ":" \/ s[8] # ":" \/ s[11] # " " \/ s[14] # ":" \/ s[17] # ":"
          \/ \E i \in (1..19) \ {5, 8, 11, 14, 17} : ~IsDigit(s[i])
       THEN NaT
  ELSE LET y  == NumVal(s, 1, 4)
           m  == NumVal(s, 6, 7)
           d  == NumVal(s, 9, 10)
           h  == NumVal(s, 12, 13)
           mi == NumVal(s, 15, 16)
           se == NumVal(s, 18, 19)
       IN  IF /\ m \in 1..12 /\ d >= 1 /\ d <= DaysIn(y, m)
              /\ h <= 23 /\ mi <= 59 /\ se <= 59
           THEN <<y, m, d, h, mi, se>>
           ELSE NaT

\* t <= u for two parsed timestamps, as datetime64 values compare: by the
\* first field in which they differ
TsLeq(t, u) ==
  \/ t = u
  \/ \E i \in 1..6 : t[i] < u[i] /\ \A j \in 1..(i - 1) : t[j] = u[j]

-----------------------------------------------------------------------------
(* Image files.  A file is its name and what a reader finds in it:         *)
(*   openable  open() / Image.open() succeed                               *)
(*   exif      the file holds an EXIF block                                *)
(*   lat, lon  the GPS GPSLatitude / GPSLongitude tag: three rationals     *)
(*   lat_ref, lon_ref  the GPS hemisphere reference tags                   *)
(*   dt        the EXIF DateTimeOriginal tag                               *)
(* An absent tag is NoDms, NoRef or NoString.                              *)

NoDms == <<>>
NoRef == "absent"

Dms(d, m, s) == <<<<d, 1>>, <<m, 1>>, <<s, 1>>>>

TsApr   == <<"2","0","2","4",":","0","4",":","3","0"," ","2","3",":","5","9",":","5","9">>
TsMay   == <<"2","0","2","4",":","0","5",":","0","1"," ","1","0",":","0","0",":","0","0">>
TsJun   == <<"2","0","2","4",":","0","6",":","1","5"," ","0","8",":","3","0",":","0","0">>
TsBad   == <<"2","0","2","4",":","1","3",":","0","1"," ","1","0",":","0","0",":","0","0">>

NoTags == [exif |-> FALSE, lat |-> NoDms, lat_ref |-> NoRef,
           lon |-> NoDms, lon_ref |-> NoRef, dt |-> NoString]

Image(name, openable, tags) ==
  [name |-> name, openable |-> openable, exif |-> tags.exif,
   lat |-> tags.lat, lat_ref |-> tags.lat_ref,
   lon |-> tags.lon, lon_ref |-> tags.lon_ref, dt |-> tags.dt]

Gps(lat, lat_ref, lon, lon_ref, dt) ==
  [exif |-> TRUE, lat |-> lat, lat_ref |-> lat_ref,
   lon |-> lon, lon_ref |-> lon_ref, dt |-> dt]

\* a.jpg: 35 40'12"N 139 45'30"E, taken in May
FileA == Image(<<"a",".","j","p","g">>, TRUE, Gps(Dms(35, 40, 12), "N", Dms(139, 45, 30), "E", TsMay))
\* b.JPG: southern and western hemisphere, the same second as a.jpg
FileB == Image(<<"b",".","J","P","G">>, TRUE, Gps(Dms(33, 52, 4), "S", Dms(70, 40, 0), "W", TsMay))
\* c.heic: with an EXIF block, taken in April
FileC == Image(<<"c",".","h","e","i","c">>, TRUE, Gps(Dms(48, 51, 30), "N", Dms(2, 17, 40), "E", TsApr))
\* d.HEIC: no EXIF block at all
FileD == Image(<<"d",".","H","E","I","C">>, TRUE, NoTags)
\* e.jpeg: complete GPS tags, a timestamp naming month 13
FileE == Image(<<"e",".","j","p","e","g">>, TRUE, Gps(Dms(51, 30, 0), "N", Dms(0, 7, 39), "W", TsBad))
\* n.jpg: complete GPS tags, no timestamp tag
FileN == Image(<<"n",".","j","p","g">>, TRUE, Gps(Dms(40, 26, 46), "N", Dms(79, 58, 56), "W", NoString))
\* p.png: the longitude reference tag is missing
FileP == Image(<<"p",".","p","n","g">>, TRUE, Gps(Dms(35, 0, 0), "N", Dms(139, 0, 0), NoRef, TsMay))
\* t.txt: not an image name
FileT == Image(<<"t",".","t","x","t">>, TRUE, NoTags)
\* x.heic: cannot be opened as an image
FileX == Image(<<"x",".","h","e","i","c">>, FALSE, NoTags)
\* z.png: on the equator (latitude 0), taken in June
FileZ == Image(<<"z",".","p","n","g">>, TRUE, Gps(Dms(0, 0, 0), "N", Dms(9, 27, 0), "E", TsJun))

\* the files the runs of Spec draw their archives from
CoreFiles == {FileA, FileC, FileD, FileT, FileX, FileZ}
\* the files the repeated run of SpecRerun draws its archive from
AllFiles == CoreFiles \cup {FileB, FileE, FileN, FileP}

-----------------------------------------------------------------------------
(* The extractor.                                                          *)

\* shutil.rmtree(path) on a directory holding `files`: either everything goes,
\* or the delete fails partway and some of the files stay behind
Rmtree(files) ==
  {[ok |-> TRUE, exists |-> FALSE, files |-> {}]}
  \cup {[ok |-> FALSE, exists |-> TRUE, files |-> k] : k \in (SUBSET files) \ {{}}}

\* `if os.path.exists(path): shutil.rmtree(path)`
RmtreeIfExists(exists, files) ==
  IF exists THEN Rmtree(files)
  ELSE {[ok |-> TRUE, exists |-> FALSE, files |-> {}]}

\* extract_zip of the gradio file: the results [raised, exists, files].
\* rmtree raises when it fails; ZipFile raises on data that is no zip archive
\* before extractall has created the directory.
ExtractZipGradio(z, exists, files) ==
  { IF ~r.ok THEN [raised |-> TRUE, exists |-> r.exists, files |-> r.files]
    ELSE IF ~z.is_zip THEN [raised |-> TRUE, exists |-> FALSE, files |-> {}]
    ELSE [raised |-> FALSE, exists |-> TRUE, files |-> z.entries]
    : r \in RmtreeIfExists(exists, files) }

\* extract_zip of the streamlit file: rmtree(ignore_errors=True) never raises,
\* makedirs(exist_ok=True) follows, and extractall writes into what is left.
ExtractZipStreamlit(z, exists, files) ==
  { IF ~z.is_zip THEN [raised |-> TRUE, exists |-> TRUE, files |-> r.files]
    ELSE [raised |-> FALSE, exists |-> TRUE, files |-> r.files \cup z.entries]
    : r \in RmtreeIfExists(exists, files) }

\* faulty variant: the seconds are divided by 60
ConvertToDegreesSec60(value) ==
  LET d == Rat(value[1][1], value[1][2])
      m == Rat(value[2][1], value[2][2])
      s == Rat(value[3][1], value[3][2])
  IN  RatAdd(RatAdd(d, RatDivInt(m, 60)), RatDivInt(s, 60))

\* d + m/60 + s/3600 of the three rationals of a DMS tag
ConvertToDegrees(value) ==
  LET d == Rat(value[1][1], value[1][2])
      m == Rat(value[2][1], value[2][2])
      s == Rat(value[3][1], value[3][2])
  IN  RatAdd(RatAdd(d, RatDivInt(m, 60)), RatDivInt(s, 3600))

\* float(num) / float(den) raises ZeroDivisionError on a zero denominator
ZeroDen(value) == \E i \in 1..3 : value[i][2] = 0

\* the tags exifread finds: those of the file when it holds an EXIF block
TagsOf(f) == IF f.exif THEN f ELSE Image(f.name, f.openable, NoTags)

\* get_gps_info from `with open(file_path)` on: [exc, lat, lon, date_time]
ReadGps(f) ==
  LET t == TagsOf(f)
      complete == /\ t.lat # NoDms /\ t.lat_ref # NoRef
                  /\ t.lon # NoDms /\ t.lon_ref # NoRef
  IN  IF complete /\ (ZeroDen(t.lat) \/ ZeroDen(t.lon))
      THEN [exc |-> "ReadError", lat |-> NoCoord, lon |-> NoCoord, date_time |-> NoString]
      ELSE [exc |-> "",
            lat |-> IF ~complete THEN NoCoord
                    ELSE IF t.lat_ref # "N" THEN RatNeg(ConvertToDegrees(t.lat))
                    ELSE ConvertToDegrees(t.lat),
            lon |-> IF ~complete THEN NoCoord
                    ELSE IF t.lon_ref # "E" THEN RatNeg(ConvertToDegrees(t.lon))
                    ELSE ConvertToDegrees(t.lon),
            date_time |-> t.dt]

\* get_gps_info: the results [exc, lat, lon, date_time, jpg_exists, jpg].
\* A .heic file is transcoded into <output_folder>/jpg first, and that
\* directory is deleted and recreated on every such call.  `ignore` is the
\* ignore_errors argument of rmtree (False in gradio, True in streamlit).
GetGpsInfo(f, ignore, jexists, jfiles) ==
  LET failed(e, je, jf) ==
        [exc |-> e, lat |-> NoCoord, lon |-> NoCoord, date_time |-> NoString,
         jpg_exists |-> je, jpg |-> jf]
      read(je, jf) ==
        LET g == ReadGps(f)
        IN  [exc |-> g.exc, lat |-> g.lat, lon |-> g.lon, date_time |-> g.date_time,
             jpg_exists |-> je, jpg |-> jf]
  IN  IF IsHeic(f.name)
      THEN { IF ~r.ok /\ ~ignore THEN failed("ScratchError", r.exists, r.files)
             ELSE IF ~f.openable THEN failed("ReadError", TRUE, r.files)
             ELSE read(TRUE, r.files \cup {TempName(f.name)})
             : r \in RmtreeIfExists(jexists, jfiles) }
      ELSE IF ~f.openable THEN {failed("ReadError", jexists, jfiles)}
      ELSE {read(jexists, jfiles)}

\* the record appended to data (gradio)
RecordGradio(f, g) ==
  [File |-> f.name, Latitude |-> g.lat, Longitude |-> g.lon, DateTime |-> g.date_time]

\* the record appended to data (streamlit)
RecordStreamlit(f, g, u) ==
  [UserID |-> u, File |-> f.name, Latitude |-> g.lat, Longitude |-> g.lon,
   DateTime |-> g.date_time]

\* `if lat and lon`
Retained(g) == Truthy(g.lat) /\ Truthy(g.lon)

\* df["DateTime"] = pd.to_datetime(df["DateTime"], ...)
Parsed(d) == [i \in 1..Len(d) |-> [d[i] EXCEPT !.DateTime = ToDatetime(d[i].DateTime)]]

\* the orders df.sort_values(by="DateTime", ascending=True) may give to the
\* rows: kind defaults to "quicksort", which is not stable, and na_position to
\* "last".  pandas sorts the non-null keys with that kind and appends the null
\* rows in their input order; rows with equal non-null keys may come out in
\* any order.  Each order is a permutation p: output row i is input row p[i].
SortOrders(rows) ==
  LET n == Len(rows)
      null(i) == rows[i].DateTime = NaT
  IN  { p \in [1..n -> 1..n] :
          /\ \A i, j \in 1..n : i # j => p[i] # p[j]
          /\ \A i, j \in 1..n : i < j =>
               \/ null(p[j]) /\ (null(p[i]) => p[i] < p[j])
               \/ ~null(p[i]) /\ ~null(p[j])
                  /\ TsLeq(rows[p[i]].DateTime, rows[p[j]].DateTime) }

\* faulty variant: the result of sort_values is dropped, the rows stay in batch order
SaveToCsvRowsUnsorted(d) == {Parsed(d)}

\* save_to_csv: the row sequences it may write for the batch d
SaveToCsvRows(d) ==
  LET rows == Parsed(d)
  IN  { [i \in 1..Len(rows) |-> rows[p[i]]] : p \in SortOrders(rows) }

-----------------------------------------------------------------------------
(* Uploads.  An upload is the name of the uploaded file, whether its bytes *)
(* are a zip archive, and the files archived in it; NoUpload is None.      *)

Upload(name, is_zip, entries) ==
  [none |-> FALSE, name |-> name, is_zip |-> is_zip, entries |-> entries]

NoUpload == [none |-> TRUE, name |-> <<>>, is_zip |-> FALSE, entries |-> {}]

Archives(files) == {a \in SUBSET files : Cardinality(a) <= MaxFiles}

\* what a user of Spec may submit: nothing, archives of core files, an archive
\* with an upper-case extension, an archive under another extension, a text
\* file, and a .zip file whose bytes are no archive
Uploads ==
  {NoUpload}
  \cup {Upload(<<"u",".","z","i","p">>, TRUE, a) : a \in Archives(CoreFiles)}
  \cup {Upload(<<"U",".","Z","I","P">>, TRUE, {FileA}),
        Upload(<<"u",".","d","a","t">>, TRUE, {FileA}),
        Upload(<<"u",".","t","x","t">>, FALSE, {}),
        Upload(<<"v",".","z","i","p">>, FALSE, {})}

\* what the identifier field may hold: gradio has no such field; in streamlit
\* a blank text or a student number
UserIds ==
  IF variant = "gradio" THEN {<<>>} ELSE {<<" ">>, <<"s","1">>}

\* the upload the widget hands to the streamlit script: file_uploader(type=["zip"])
\* refuses other extensions, and uploaded_file stays None
Uploaded(z) ==
  IF ~z.none /\ EndsWith(Lower(z.name), DotZip) THEN z ELSE NoUpload

\* faulty variant: the extension check is missing
InvalidGradioNoExt(z) == z.none

\* process_zip's two checks before any work (gradio)
InvalidGradio(z) == z.none \/ ~EndsWith(Lower(z.name), DotZip)

\* the negation of `uploaded_file is not None and user_id.strip()` (streamlit)
InvalidStreamlit(z, u) == Uploaded(z).none \/ ~StripNonEmpty(u)

Invalid(z, u) ==
  IF variant = "gradio" THEN InvalidGradio(z) ELSE InvalidStreamlit(z, u)

\* faulty variant: the emptiness check is missing
BatchIsEmptyNever(d) == FALSE

\* `if not data`
BatchIsEmpty(d) == d = <<>>

NoRet == [file |-> <<>>, lat |-> NoCoord, lon |-> NoCoord, date_time |-> NoString]
NoCsv == [exists |-> FALSE, rows |-> <<>>]

\* the results of extract_zip, the constructor's makedirs included: the
\* streamlit script constructs its extractor in every run, gradio once at import
ExtractZip(z) ==
  LET all == IF variant = "gradio"
             THEN ExtractZipGradio(z, unzip_exists, unzip)
             ELSE ExtractZipStreamlit(z, TRUE, unzip)
  IN  {r \in all : Cardinality(r.files) <= MaxFiles}

-----------------------------------------------------------------------------
(* The state machine.                                                      *)

Init ==
  /\ variant \in {"gradio", "streamlit"}
  /\ pc = "idle"
  /\ zip_file = NoUpload
  /\ user_id = <<>>
  /\ unzip_exists = (variant = "gradio")
  /\ unzip = {}
  /\ jpg_exists = FALSE
  /\ jpg = {}
  /\ csv = NoCsv
  /\ todo = {}
  /\ data = <<>>
  /\ ret = NoRet
  /\ outcome = "None"

\* the user submits an upload and an identifier: the handler is entered
Call(z, u) ==
  /\ pc = "idle"
  /\ pc' = "called"
  /\ zip_file' = z
  /\ user_id' = u
  /\ UNCHANGED <<variant, unzip_exists, unzip, jpg_exists, jpg, csv, todo, data, ret,
                 outcome>>

\* the submission fails validation: nothing is touched
Reject ==
  /\ pc = "called"
  /\ Invalid(zip_file, user_id)
  /\ pc' = "idle"
  /\ zip_file' = NoUpload
  /\ user_id' = <<>>
  /\ outcome' = "Rejected"
  /\ UNCHANGED <<variant, unzip_exists, unzip, jpg_exists, jpg, csv, todo, data, ret>>

\* a valid submission whose extract_zip raises
StageFail ==
  /\ pc = "called"
  /\ ~Invalid(zip_file, user_id)
  /\ \E r \in ExtractZip(zip_file) :
       /\ r.raised
       /\ unzip_exists' = r.exists
       /\ unzip' = r.files
  /\ pc' = "idle"
  /\ zip_file' = NoUpload
  /\ user_id' = <<>>
  /\ outcome' = "StageError"
  /\ UNCHANGED <<variant, jpg_exists, jpg, csv, todo, data, ret>>

\* a valid submission whose extract_zip returns: os.walk lists the directory
Stage ==
  /\ pc = "called"
  /\ ~Invalid(zip_file, user_id)
  /\ \E r \in ExtractZip(zip_file) :
       /\ ~r.raised
       /\ unzip_exists' = r.exists
       /\ unzip' = r.files
       /\ todo' = r.files
  /\ pc' = "staged"
  /\ UNCHANGED <<variant, zip_file, user_id, jpg_exists, jpg, csv, data, ret, outcome>>

\* the scan passes over a file whose extension is not supported
SkipFile ==
  /\ pc = "staged"
  /\ \E f \in todo :
       /\ ~SupportedExt(f.name)
       /\ todo' = todo \ {f}
  /\ UNCHANGED <<variant, pc, zip_file, user_id, unzip_exists, unzip, jpg_exists, jpg,
                 csv, data, ret, outcome>>

\* the scan reads one image and keeps its record if `lat and lon`
ReadFile ==
  /\ pc = "staged"
  /\ \E f \in todo :
       /\ SupportedExt(f.name)
       /\ \E g \in GetGpsInfo(f, variant = "streamlit", jpg_exists, jpg) :
            /\ g.exc = ""
            /\ jpg_exists' = g.jpg_exists
            /\ jpg' = g.jpg
            /\ ret' = [file |-> f.name, lat |-> g.lat, lon |-> g.lon,
                       date_time |-> g.date_time]
            /\ data' = IF Retained(g)
                       THEN Append(data, IF variant = "gradio"
                                         THEN RecordGradio(f, g)
                                         ELSE RecordStreamlit(f, g, user_id))
                       ELSE data
       /\ todo' = todo \ {f}
  /\ UNCHANGED <<variant, pc, zip_file, user_id, unzip_exists, unzip, csv, outcome>>

\* get_gps_info raises: nothing in extract_gps_from_images catches it, so the
\* exception ends the run (gradio reports it, streamlit's except shows it)
ReadFails ==
  /\ pc = "staged"
  /\ \E f \in todo :
       /\ SupportedExt(f.name)
       /\ \E g \in GetGpsInfo(f, variant = "streamlit", jpg_exists, jpg) :
            /\ g.exc # ""
            /\ jpg_exists' = g.jpg_exists
            /\ jpg' = g.jpg
            /\ outcome' = g.exc
  /\ pc' = "idle"
  /\ zip_file' = NoUpload
  /\ user_id' = <<>>
  /\ todo' = {}
  /\ data' = <<>>
  /\ ret' = NoRet
  /\ UNCHANGED <<variant, unzip_exists, unzip, csv>>

\* faulty variant: `return data` sits inside the loop, the scan may return early
ScanReturnEarly ==
  /\ pc = "staged"
  /\ pc' = "scanned"
  /\ ret' = NoRet
  /\ UNCHANGED <<variant, zip_file, user_id, unzip_exists, unzip, jpg_exists, jpg,
                 csv, todo, data, outcome>>

\* os.walk is exhausted: extract_gps_from_images returns data
ScanReturn ==
  /\ pc = "staged"
  /\ todo = {}
  /\ pc' = "scanned"
  /\ ret' = NoRet
  /\ UNCHANGED <<variant, zip_file, user_id, unzip_exists, unzip, jpg_exists, jpg,
                 csv, todo, data, outcome>>

\* `if not data`: ValueError (gradio) or st.warning (streamlit), and no export
EmptyResult ==
  /\ pc = "scanned"
  /\ BatchIsEmpty(data)
  /\ pc' = "idle"
  /\ zip_file' = NoUpload
  /\ user_id' = <<>>
  /\ outcome' = "Empty"
  /\ UNCHANGED <<variant, unzip_exists, unzip, jpg_exists, jpg, csv, todo, data, ret>>

\* save_to_csv(data)
SaveToCsv ==
  /\ pc = "scanned"
  /\ ~BatchIsEmpty(data)
  /\ \E rows \in SaveToCsvRows(data) : csv' = [exists |-> TRUE, rows |-> rows]
  /\ pc' = "exported"
  /\ UNCHANGED <<variant, zip_file, user_id, unzip_exists, unzip, jpg_exists, jpg,
                 todo, data, ret, outcome>>

\* the run hands the csv to the user and ends
Return ==
  /\ pc = "exported"
  /\ pc' = "idle"
  /\ zip_file' = NoUpload
  /\ user_id' = <<>>
  /\ data' = <<>>
  /\ outcome' = "Ok"
  /\ UNCHANGED <<variant, unzip_exists, unzip, jpg_exists, jpg, csv, todo, ret>>

Next ==
  \/ \E z \in Uploads, u \in UserIds : Call(z, u)
  \/ Reject
  \/ StageFail
  \/ Stage
  \/ SkipFile
  \/ ReadFile
  \/ ReadFails
  \/ ScanReturn
  \/ EmptyResult
  \/ SaveToCsv
  \/ Return

Spec == Init /\ [][Next]_vars

-----------------------------------------------------------------------------
(* The same archive submitted again and again.  The archive is drawn from  *)
(* all files; every later submission uploads the archive whose entries are *)
(* the files of the unpack directory, with a valid identifier.             *)

ValidUserId == IF variant = "gradio" THEN <<>> ELSE <<"s","1">>

InitRun(uploads) ==
  /\ variant \in {"gradio", "streamlit"}
  /\ pc = "called"
  /\ zip_file \in uploads
  /\ user_id = ValidUserId
  /\ unzip_exists = (variant = "gradio")
  /\ unzip = {}
  /\ jpg_exists = FALSE
  /\ jpg = {}
  /\ csv = NoCsv
  /\ todo = {}
  /\ data = <<>>
  /\ ret = NoRet
  /\ outcome = "None"

InitRerun ==
  \E a \in Archives(AllFiles) : InitRun({Upload(<<"u",".","z","i","p">>, TRUE, a)})

Recall ==
  /\ pc = "idle"
  /\ pc' = "called"
  /\ zip_file' = Upload(<<"u",".","z","i","p">>, TRUE, unzip)
  /\ user_id' = ValidUserId
  /\ UNCHANGED <<variant, unzip_exists, unzip, jpg_exists, jpg, csv, todo, data, ret,
                 outcome>>

NextRerun ==
  \/ Recall
  \/ Stage
  \/ SkipFile
  \/ ReadFile
  \/ ReadFails
  \/ ScanReturn
  \/ EmptyResult
  \/ SaveToCsv
  \/ Return

SpecRerun == InitRerun /\ [][NextRerun]_vars

-----------------------------------------------------------------------------
(* One run over an archive of one image whose GPS tags are drawn from the  *)
(* rationals num/den with num in 0..MaxNum and den in 0..MaxDen.           *)

Ratios == {<<n, d>> : n \in 0..MaxNum, d \in 0..MaxDen}

\* q.jpg with the drawn latitude tag and reference
LatFile(v, r) ==
  Image(<<"q",".","j","p","g">>, TRUE, Gps(v, r, Dms(139, 45, 30), "E", TsMay))

\* q.jpg with the drawn longitude tag and reference
LonFile(v, r) ==
  Image(<<"q",".","j","p","g">>, TRUE, Gps(Dms(35, 40, 12), "N", v, r, TsMay))

InitConv ==
  \E d \in Ratios, m \in Ratios, s \in Ratios :
    \/ \E r \in {"N", "S", "n"} :
         InitRun({Upload(<<"u",".","z","i","p">>, TRUE, {LatFile(<<d, m, s>>, r)})})
    \/ \E r \in {"E", "W", "e"} :
         InitRun({Upload(<<"u",".","z","i","p">>, TRUE, {LonFile(<<d, m, s>>, r)})})

NextConv ==
  \/ Stage
  \/ ReadFile
  \/ ReadFails
  \/ ScanReturn
  \/ EmptyResult
  \/ SaveToCsv
  \/ Return

SpecConv == InitConv /\ [][NextConv]_vars

-----------------------------------------------------------------------------
(* Properties.                                                             *)

\* a file carries all four GPS tags
AllFourTags(f) ==
  /\ f.exif
  /\ f.lat # NoDms /\ f.lat_ref # NoRef
  /\ f.lon # NoDms /\ f.lon_ref # NoRef

\* the phase of the pipeline a position belongs to
Phase(p) ==
  IF p \in {"idle", "called"} THEN "Idle"
  ELSE IF p = "staged" THEN "Staged"
  ELSE IF p = "scanned" THEN "Scanned"
  ELSE "Exported"

\* two rows have the same sort key: equal timestamps, or both null
SameKey(a, b) == a.DateTime = b.DateTime

\* no two rows of a table share a sort key
DistinctKeys(rows) ==
  \A i, j \in 1..Len(rows) : i # j => ~SameKey(rows[i], rows[j])

\* two tables hold the same rows the same number of times
SameRows(a, b) ==
  /\ Len(a) = Len(b)
  /\ \A i \in 1..Len(a) :
       Cardinality({j \in 1..Len(a) : a[j] = a[i]})
         = Cardinality({j \in 1..Len(b) : b[j] = a[i]})

(* C1: when the scan of a directory returns, the batch holds exactly one   *)
(* record per file with a supported extension that carries all four GPS    *)
(* tags, a file whose latitude or longitude is 0 degrees included.         *)
C1_BatchCountsCompleteFiles ==
  pc = "scanned" =>
    Len(data) = Cardinality({f \in unzip : SupportedExt(f.name) /\ AllFourTags(f)})

(* C2: the exported rows are the batch's rows, permuted so that parseable  *)
(* timestamps ascend, null timestamps come last, and rows with equal sort  *)
(* keys keep their batch order.                                            *)
C2_ExportIsStableSort ==
  pc = "exported" =>
    LET batch == Parsed(data)
        out == csv.rows
        n == Len(batch)
    IN  /\ Len(out) = n
        /\ \E p \in [1..n -> 1..n] :
             /\ \A i, j \in 1..n : i # j => p[i] # p[j]
             /\ \A i \in 1..n : out[i] = batch[p[i]]
             /\ \A i, j \in 1..n : i < j =>
                  /\ out[i].DateTime = NaT => out[j].DateTime = NaT
                  /\ (out[i].DateTime # NaT /\ out[j].DateTime # NaT)
                       => TsLeq(out[i].DateTime, out[j].DateTime)
                  /\ SameKey(out[i], out[j]) => p[i] < p[j]

(* C3: no run is ended by the failure of reading one image: the scan skips *)
(* the file and goes on.                                                   *)
C3_ReadFailureIsSkipped == outcome # "ReadError"

(* C4: when extract_zip has returned, the unpack directory holds exactly   *)
(* the entries of this run's archive.                                      *)
C4_UnpackDirIsThisArchive ==
  pc = "staged" => unzip = zip_file.entries

(* C5: a scan that returns an empty batch ends the run with the            *)
(* empty-result outcome, without save_to_csv and without touching the      *)
(* output file.                                                            *)
C5_EmptyBatchWritesNothing ==
  [][(pc = "scanned" /\ data = <<>>)
       => (pc' = "idle" /\ outcome' = "Empty" /\ csv' = csv)]_vars

\* an empty run has ended and the output of an earlier run is still there
C5_Witness == pc = "idle" /\ outcome = "Empty" /\ csv.exists

\* the name ends in .zip, in any mix of cases
ZipNamed(name) ==
  LET n == Len(name)
  IN  /\ n >= 4
      /\ name[n - 3] = "."
      /\ name[n - 2] \in {"z", "Z"}
      /\ name[n - 1] \in {"i", "I"}
      /\ name[n] \in {"p", "P"}

\* the submission is missing, is not named .zip, or (streamlit) has a blank identifier
BadInput ==
  \/ zip_file.none
  \/ ~ZipNamed(zip_file.name)
  \/ variant = "streamlit" /\ \A i \in 1..Len(user_id) : user_id[i] = " "

(* C6: a submission that is missing, not named .zip (in any case), or      *)
(* blank in its identifier is rejected before extract_zip: the unpack      *)
(* directory, the scratch directory and the output file stay as they are.  *)
C6_BadInputTouchesNothing ==
  [][(pc = "called" /\ BadInput)
       => /\ pc' = "idle"
          /\ outcome' = "Rejected"
          /\ UNCHANGED <<unzip_exists, unzip, jpg_exists, jpg, csv>>]_vars

\* a submission was rejected after a run that left files behind
C6_Witness ==
  pc = "idle" /\ outcome = "Rejected" /\ csv.exists /\ unzip # {} /\ jpg # {}

\* the coordinate c is (d + m/60 + s/3600) of the tag, negated unless ref = pos
IsDegreesOf(c, value, ref, pos) ==
  LET dn == value[1][1]  dd == value[1][2]
      mn == value[2][1]  md == value[2][2]
      sn == value[3][1]  sd == value[3][2]
      num == dn * 3600 * md * sd + mn * 60 * dd * sd + sn * dd * md
      den == 3600 * dd * md * sd
  IN  /\ c # NoCoord
      /\ c[2] > 0
      /\ den % c[2] = 0
      /\ IF ref = pos
         THEN c[1] >= 0 /\ c[1] * (den \div c[2]) = num
         ELSE c[1] <= 0 /\ c[1] * (den \div c[2]) = -num

(* C7: for a file with all four tags and non-zero denominators,            *)
(* get_gps_info returns d + m/60 + s/3600 for each coordinate, non-negative*)
(* under the reference "N" (latitude) or "E" (longitude) and negated under *)
(* every other reference.                                                  *)
C7_CoordinateIsSignedDegrees ==
  ret.file # <<>> =>
    \A f \in unzip :
      (f.name = ret.file /\ AllFourTags(f)) =>
        /\ IsDegreesOf(ret.lat, f.lat, f.lat_ref, "N")
        /\ IsDegreesOf(ret.lon, f.lon, f.lon_ref, "E")

\* a tag with minutes and seconds was converted and negated under a reference
\* that is neither "N" nor "S"
C7_Witness ==
  /\ ret.file # <<>>
  /\ ret.lat # NoCoord
  /\ ret.lat[1] < 0
  /\ \E f \in unzip : f.lat_ref = "n" /\ f.lat[2][1] > 0 /\ f.lat[3][1] > 0

(* C8: within a run the scratch directory is not cleared per file: the     *)
(* transcoded output of every .heic file the run has processed is still in *)
(* the scratch directory.                                                  *)
C8_ScratchKeepsEarlierOutputs ==
  pc \in {"staged", "scanned", "exported"} =>
    \A f \in unzip \ todo : IsHeic(f.name) => TempName(f.name) \in jpg

\* no two rows of a table have the same parseable timestamp
NoTimestampTie(rows) ==
  \A i, j \in 1..Len(rows) :
    (i # j /\ rows[i].DateTime # NaT) => rows[i].DateTime # rows[j].DateTime

(* C9, as claimed: a later scan and export of the same directory writes    *)
(* the same sequence of rows as the one before, whatever the two orders of *)
(* visiting its files.  Stated for the exports in which no two rows have   *)
(* the same parseable timestamp, where the order the sort gives to equal   *)
(* timestamps plays no part.                                               *)
C9_OrderHasNoEffect ==
  [][(pc = "scanned" /\ pc' = "exported" /\ csv.exists /\ NoTimestampTie(csv'.rows))
       => csv'.rows = csv.rows]_vars

(* C9, amended: a later scan and export of the same directory writes the   *)
(* same rows as the one before, and in the same sequence whenever no two   *)
(* rows share a sort key.                                                  *)
C9_OrderHasNoEffectUpToTies ==
  [][(pc = "scanned" /\ pc' = "exported" /\ csv.exists)
       => /\ SameRows(csv.rows, csv'.rows)
          /\ DistinctKeys(csv'.rows) => csv'.rows = csv.rows]_vars

\* a second export of two rows with different keys, after a scan that met
\* them in the other order
C9_Witness ==
  /\ pc = "exported"
  /\ outcome = "Ok"
  /\ Len(csv.rows) >= 2
  /\ DistinctKeys(csv.rows)
  /\ Parsed(data) # csv.rows

====
